---- MODULE Spec2Model ----
(***************************************************************************)
(* Model of the mortgage prepayment calculator:                            *)
(*   client/src/lib/mortgageCalculator.ts  (the amortization engine)       *)
(*   Home page component                   (form state and validation)     *)
(*                                                                         *)
(* Every quantity of the engine is an ECMAScript Number, that is an IEEE   *)
(* 754 binary64 value.  The model computes with binary64 bit for bit:      *)
(* 53-bit significands, round to nearest (ties to even), gradual           *)
(* underflow, overflow to Infinity, NaN.  TLC's integers are 32 bits wide, *)
(* so significands are held as little-endian sequences of 14-bit limbs.    *)
(***************************************************************************)
EXTENDS Integers, Sequences, FiniteSets, TLC

(***************************************************************************)
(* Natural numbers of arbitrary size: little-endian limb sequences.        *)
(***************************************************************************)
LimbBits == 14
Base == 2^LimbBits

BLimb(a, i) == IF i <= Len(a) THEN a[i] ELSE 0

\* the index of the highest limb of a that is not 0, 0 when there is none
BTop(a) ==
  IF \A i \in 1..Len(a) : a[i] = 0 THEN 0
  ELSE CHOOSE i \in 1..Len(a) : a[i] # 0 /\ \A j \in (i + 1)..Len(a) : a[j] = 0

BTrim(a) == SubSeq(a, 1, BTop(a))

\* a without its high limbs that are 0 (SubSeq makes a tuple of a function)
BNorm(a) == BTrim(SubSeq(a, 1, Len(a)))

BIsZero(a) == Len(BNorm(a)) = 0

\* the carry into limb i of a + b: a lower limb overflows and every limb
\* between passes the carry on
BCarry(a, b, i) ==
  IF \E j \in 1..(i - 1) :
       /\ BLimb(a, j) + BLimb(b, j) >= Base
       /\ \A k \in (j + 1)..(i - 1) : BLimb(a, k) + BLimb(b, k) = Base - 1
  THEN 1 ELSE 0

BAdd(a, b) ==
  BNorm([i \in 1..(1 + IF Len(a) > Len(b) THEN Len(a) ELSE Len(b)) |->
           (BLimb(a, i) + BLimb(b, i) + BCarry(a, b, i)) % Base])

\* the borrow from limb i of a - b
BBorrow(a, b, i) ==
  IF \E j \in 1..(i - 1) :
       /\ BLimb(a, j) < BLimb(b, j)
       /\ \A k \in (j + 1)..(i - 1) : BLimb(a, k) = BLimb(b, k)
  THEN 1 ELSE 0

\* a - b for a >= b
BSub(a, b) ==
  BNorm([i \in 1..Len(a) |-> (a[i] - BLimb(b, i) - BBorrow(a, b, i) + Base) % Base])

\* the highest of the limbs 1..n in which a and b differ
BDiffTop(a, b, n) ==
  CHOOSE i \in 1..n : /\ BLimb(a, i) # BLimb(b, i)
                      /\ \A j \in (i + 1)..n : BLimb(a, j) = BLimb(b, j)

BCmpTo(a, b, n) ==
  IF \A i \in 1..n : BLimb(a, i) = BLimb(b, i) THEN 0
  ELSE IF BLimb(a, BDiffTop(a, b, n)) > BLimb(b, BDiffTop(a, b, n)) THEN 1 ELSE -1

\* -1, 0, 1 as a < b, a = b, a > b
BCmp(a, b) == BCmpTo(a, b, IF Len(a) > Len(b) THEN Len(a) ELSE Len(b))

BShlLimbs(a, k) == [i \in 1..k |-> 0] \o a

\* a * d for one limb d: the low halves of the limb products plus their high
\* halves one limb up
BMulLimb(a, d) ==
  BAdd(BNorm([i \in 1..Len(a) |-> (a[i] * d) % Base]),
       BShlLimbs(BNorm([i \in 1..Len(a) |-> (a[i] * d) \div Base]), 1))

\* the sum of a * b[j] * Base^(j - 1) for j in lo..hi (split in halves, which
\* bounds the depth of the evaluation)
RECURSIVE BMulR(_, _, _, _)
BMulR(a, b, lo, hi) ==
  IF lo > hi THEN <<>>
  ELSE IF lo = hi THEN BShlLimbs(BMulLimb(a, b[lo]), lo - 1)
  ELSE BAdd(BMulR(a, b, lo, (lo + hi) \div 2),
            BMulR(a, b, ((lo + hi) \div 2) + 1, hi))

BMul(a, b) == BNorm(BMulR(a, b, 1, Len(b)))

\* a * 2^k
BShl(a, k) ==
  IF BIsZero(a) THEN <<>>
  ELSE BShlLimbs(BMulLimb(a, 2^(k % LimbBits)), k \div LimbBits)

\* floor(a / 2^k)
BShr(a, k) ==
  LET q == k \div LimbBits
      r == k % LimbBits
      n == Len(a) - q
  IN  IF n <= 0 THEN <<>>
      ELSE BNorm([i \in 1..n |->
                    (a[i + q] \div 2^r)
                    + (BLimb(a, i + q + 1) % 2^r) * 2^(LimbBits - r)])

\* the low k bits of a are all 0
BLowZero(a, k) ==
  LET q == k \div LimbBits
      r == k % LimbBits
  IN  /\ \A i \in 1..q : BLimb(a, i) = 0
      /\ BLimb(a, q + 1) % 2^r = 0

\* bit k of a (bit 0 is the lowest)
BBit(a, k) == (BLimb(a, (k \div LimbBits) + 1) \div 2^(k % LimbBits)) % 2

\* number of bits of one limb d
LimbLen(d) == CHOOSE k \in 0..LimbBits : d < 2^k /\ (k = 0 \/ d >= 2^(k - 1))

\* number of bits of a
BitLen(n) == IF Len(n) = 0 THEN 0 ELSE (Len(n) - 1) * LimbBits + LimbLen(n[Len(n)])

BLen(a) == BitLen(BNorm(a))

BFromNat(n) == BNorm(<<n % Base, (n \div Base) % Base, n \div (Base * Base)>>)

\* the value of a, for a below 2^31
BToNat(a) == BLimb(a, 1) + Base * BLimb(a, 2) + Base * Base * BLimb(a, 3)

\* one step of restoring division by d on a running <<quotient, remainder>>
\* with remainder < d: one more quotient bit
BDivBit(q2, r2, d) ==
  IF BCmp(r2, d) >= 0 THEN <<BAdd(q2, <<1>>), BSub(r2, d)>> ELSE <<q2, BNorm(r2)>>

BDivStep(qr, d) == BDivBit(BShl(qr[1], 1), BShl(qr[2], 1), d)

\* k steps (split in halves, which bounds the depth of the evaluation)
RECURSIVE BDivR(_, _, _)
BDivR(qr, d, k) ==
  IF Len(qr) # 2 \/ k = 0 THEN qr
  ELSE IF k = 1 THEN BDivStep(qr, d)
  ELSE BDivR(BDivR(qr, d, k \div 2), d, k - (k \div 2))

(***************************************************************************)
(* ECMAScript Number (IEEE 754 binary64).  A value is a record             *)
(*   [k |-> "fin" | "inf" | "nan", s |-> sign, m |-> significand, e |-> e] *)
(* standing for (-1)^s * m * 2^e; a normal number has a significand of     *)
(* exactly Prec bits, a subnormal one has e = EMin.                        *)
(***************************************************************************)
Prec == 53
EMin == -1074
EMax == 1024

NaN == [k |-> "nan", s |-> 0, m |-> <<>>, e |-> 0]
FInf(s) == [k |-> "inf", s |-> s, m |-> <<>>, e |-> 0]
FZero(s) == [k |-> "fin", s |-> s, m |-> <<>>, e |-> 0]

IsNaN(x) == x.k = "nan"
IsFinite(x) == x.k = "fin"
IsZero(x) == x.k = "fin" /\ Len(x.m) = 0

\* the value m * 2^e when it needs no rounding, Infinity from 2^EMax on
Pack(s, m, e) ==
  IF BIsZero(m) THEN FZero(s)
  ELSE IF e + BLen(m) > EMax THEN FInf(s)
  ELSE [k |-> "fin", s |-> s, m |-> BNorm(m), e |-> e]

\* the binary64 value nearest to a * 2^e, ties to the even significand
\* q1 is the rounded significand: a carry out of Prec bits is shifted back
RoundCarry(s, q1, e) ==
  IF BLen(q1) > Prec THEN Pack(s, BShr(q1, 1), e + 1) ELSE Pack(s, q1, e)

\* q is the significand cut to its kept bits, up says that the cut-off part
\* is above one half of the last kept bit, tie that it is exactly one half
RoundUp(s, q, e, up, tie) ==
  RoundCarry(s, IF up \/ (tie /\ BBit(q, 0) = 1) THEN BAdd(q, <<1>>) ELSE q, e)

\* n * 2^e, cut by sh bits
RoundCut(s, n, e, sh) ==
  IF sh <= 0 THEN Pack(s, BShl(n, -sh), e + sh)
  ELSE RoundUp(s, BShr(n, sh), e + sh,
               BBit(n, sh - 1) = 1 /\ ~BLowZero(n, sh - 1),
               BBit(n, sh - 1) = 1 /\ BLowZero(n, sh - 1))

RoundBits(s, n, e, L) ==
  IF L = 0 THEN FZero(s)
  ELSE RoundCut(s, n, e, IF L - Prec > EMin - e THEN L - Prec ELSE EMin - e)

RoundPack(s, a, e) == RoundBits(s, BNorm(a), e, BLen(a))

FromNat(n) == RoundPack(0, BFromNat(n), 0)

FNeg(x) == IF IsNaN(x) THEN x ELSE [x EXCEPT !.s = 1 - x.s]

\* x * y
FMul(x, y) ==
  LET s == (x.s + y.s) % 2
  IN  IF IsNaN(x) \/ IsNaN(y) THEN NaN
      ELSE IF x.k = "inf" \/ y.k = "inf"
           THEN (IF IsZero(x) \/ IsZero(y) THEN NaN ELSE FInf(s))
      ELSE IF IsZero(x) \/ IsZero(y) THEN FZero(s)
      ELSE RoundPack(s, BMul(x.m, y.m), x.e + y.e)

\* the quotient bits and the remainder make the significand to round: a
\* remainder that is not 0 is one more low bit
DivRound(s, qr, e) ==
  RoundPack(s, BAdd(BShl(qr[1], 1), IF BIsZero(qr[2]) THEN <<>> ELSE <<1>>), e)

\* xm / ym * 2^(e + Prec + 4) for significands xm, ym of Prec bits each
DivAligned(s, xm, ym, e) ==
  DivRound(s,
           BDivR(IF BCmp(xm, ym) >= 0 THEN <<(<<1>>), BSub(xm, ym)>>
                                      ELSE <<(<<>>), BNorm(xm)>>,
                 ym, Prec + 3),
           e)

\* x / y
FDiv(x, y) ==
  LET s == (x.s + y.s) % 2
  IN  IF IsNaN(x) \/ IsNaN(y) THEN NaN
      ELSE IF x.k = "inf" THEN (IF y.k = "inf" THEN NaN ELSE FInf(s))
      ELSE IF y.k = "inf" THEN FZero(s)
      ELSE IF IsZero(y) THEN (IF IsZero(x) THEN NaN ELSE FInf(s))
      ELSE IF IsZero(x) THEN FZero(s)
      ELSE DivAligned(s, BShl(x.m, Prec - BLen(x.m)), BShl(y.m, Prec - BLen(y.m)),
                      (x.e + BLen(x.m)) - (y.e + BLen(y.m)) - (Prec + 4))

\* (-1)^hs * hm * 2^e + (-1)^ls * lm * 2^e, where c compares hm with lm
\* (operands that cancel give +0)
AddMag(hs, hm, ls, lm, e, c) ==
  RoundPack(IF hs = ls \/ c > 0 THEN hs ELSE IF c = 0 THEN 0 ELSE ls,
            IF hs = ls THEN BAdd(hm, lm)
            ELSE IF c >= 0 THEN BSub(hm, lm) ELSE BSub(lm, hm),
            e)

AddShifted(hs, hm, ls, lm, e) == AddMag(hs, hm, ls, lm, e, BCmp(hm, lm))

\* hi + lo for finite operands that are not 0, hi.e >= lo.e; an operand
\* more than Prec + 11 bits below only decides the direction of rounding
AddAligned(hi, lo, far) ==
  AddShifted(hi.s, BShl(hi.m, IF far THEN Prec + 11 ELSE hi.e - lo.e),
             lo.s, IF far THEN <<1>> ELSE lo.m,
             IF far THEN hi.e - (Prec + 11) ELSE lo.e)

AddOrdered(hi, lo) == AddAligned(hi, lo, hi.e - lo.e > Prec + 11)

\* x + y
FAdd(x, y) ==
  IF IsNaN(x) \/ IsNaN(y) THEN NaN
  ELSE IF x.k = "inf" THEN (IF y.k = "inf" /\ y.s # x.s THEN NaN ELSE x)
  ELSE IF y.k = "inf" THEN y
  ELSE IF IsZero(x) THEN (IF IsZero(y) THEN FZero(IF x.s = 1 /\ y.s = 1 THEN 1 ELSE 0) ELSE y)
  ELSE IF IsZero(y) THEN x
  ELSE AddOrdered(IF x.e >= y.e THEN x ELSE y, IF x.e >= y.e THEN y ELSE x)

FSub(x, y) == FAdd(x, FNeg(y))

\* d is the difference of the positions of the leading bits of x and y
MagOrder(x, y, d) ==
  IF d > 0 THEN 1
  ELSE IF d < 0 THEN -1
  ELSE BCmp(BShl(x.m, IF x.e >= y.e THEN x.e - y.e ELSE 0),
            BShl(y.m, IF x.e >= y.e THEN 0 ELSE y.e - x.e))

\* -1, 0, 1 as |x| < |y|, |x| = |y|, |x| > |y|, for finite x and y
MagCmp(x, y) ==
  IF IsZero(x) THEN (IF IsZero(y) THEN 0 ELSE -1)
  ELSE IF IsZero(y) THEN 1
  ELSE MagOrder(x, y, (x.e + BLen(x.m)) - (y.e + BLen(y.m)))

\* -1, 0, 1 as x < y, x = y, x > y, for x and y not NaN
FCmp(x, y) ==
  LET sx == IF IsZero(x) THEN 0 ELSE IF x.s = 1 THEN -1 ELSE 1
      sy == IF IsZero(y) THEN 0 ELSE IF y.s = 1 THEN -1 ELSE 1
      mag == IF x.k = "inf" THEN (IF y.k = "inf" THEN 0 ELSE 1)
             ELSE IF y.k = "inf" THEN -1
             ELSE MagCmp(x, y)
  IN  IF sx # sy THEN (IF sx > sy THEN 1 ELSE -1)
      ELSE IF sx = 0 THEN 0
      ELSE sx * mag

\* the comparison operators: false as soon as an operand is NaN
FLe(x, y) == ~IsNaN(x) /\ ~IsNaN(y) /\ FCmp(x, y) <= 0
FLt(x, y) == ~IsNaN(x) /\ ~IsNaN(y) /\ FCmp(x, y) < 0
FEq(x, y) == ~IsNaN(x) /\ ~IsNaN(y) /\ FCmp(x, y) = 0

\* Math.max(x, y)
MaxBy(x, y, c) == IF c > 0 THEN x ELSE IF c < 0 THEN y ELSE IF x.s = 0 THEN x ELSE y

MathMax(x, y) == IF IsNaN(x) \/ IsNaN(y) THEN NaN ELSE MaxBy(x, y, FCmp(x, y))

\* Math.ceil(x)
MathCeil(x) ==
  IF ~IsFinite(x) \/ IsZero(x) \/ x.e >= 0 THEN x
  ELSE RoundPack(x.s,
                 IF x.s = 0 /\ ~BLowZero(x.m, -x.e)
                 THEN BAdd(BShr(x.m, -x.e), <<1>>) ELSE BShr(x.m, -x.e),
                 0)

One == FromNat(1)

\* x is 2^a for an integer a
IsPowerOfTwo(x) == IsFinite(x) /\ ~IsZero(x) /\ x.s = 0 /\ BLowZero(x.m, BLen(x.m) - 1)
Log2(x) == x.e + BLen(x.m) - 1

\* a value the model does not compute: evaluating it stops the check
Unmodelled(x) == CHOOSE v \in {} : v = x

\* 2^(t * 2^ye), where that is a Number: exact, Infinity from 2^EMax on
PowTwo(t, ye) ==
  IF BLen(t) + ye > 12 THEN FInf(0)
  ELSE IF ye < 0 /\ ~BLowZero(t, -ye) THEN Unmodelled(<<t, ye>>)
  ELSE RoundPack(0, <<1>>, BToNat(IF ye >= 0 THEN BShl(t, ye) ELSE BShr(t, -ye)))

\* powers of other bases carry PowBits bits; <<m, e>> stands for m * 2^e
PowBits == 6 * LimbBits

\* m with its low bit set
BOdd(m) == IF BBit(m, 0) = 1 THEN m ELSE BAdd(m, <<1>>)

\* m * 2^e cut by sh bits; the low bit records a cut-off part that is not 0
PowCut(m, e, sh) ==
  IF sh <= 0 THEN <<m, e>>
  ELSE <<IF BLowZero(m, sh) THEN BShr(m, sh) ELSE BOdd(BShr(m, sh)), e + sh>>

PowFit(m, e) == PowCut(m, e, BLen(m) - PowBits)

PowMul(p, q) == PowFit(BMul(p[1], q[1]), p[2] + q[2])

\* one step of raising to a power by squaring; st is <<result, square, n>>
PowStep(st) ==
  <<IF st[3] % 2 = 1 THEN PowMul(st[1], st[2]) ELSE st[1],
    IF st[3] > 1 THEN PowMul(st[2], st[2]) ELSE st[2],
    st[3] \div 2>>

RECURSIVE PowLoop(_)
PowLoop(st) == IF st[3] = 0 THEN st[1] ELSE PowLoop(PowStep(st))

\* p^n
PowR(p, n) == PowLoop(<<(<<(<<1>>), 0>>), p, n>>)

PowRound(p) == RoundPack(0, p[1], p[2])

\* Math.pow(x, y) for a base x >= 1 and an exponent y > 0, the two uses the
\* engine makes of it.  A power of a power of two is computed exactly, as
\* Math.pow does.  Any other base is raised to a whole exponent, carrying
\* PowBits bits, and rounded once: that is the Number nearest to the power
\* (Math.pow itself may return its neighbour).  The model has no value for a
\* fractional power of a base that is no power of two.
MathPow(x, y) ==
  IF IsNaN(x) \/ IsNaN(y) THEN NaN
  ELSE IF Log2(x) = 0 /\ IsPowerOfTwo(x) THEN (IF y.k = "inf" THEN NaN ELSE x)
  ELSE IF x.k = "inf" \/ y.k = "inf" THEN FInf(0)
  ELSE IF IsPowerOfTwo(x) THEN PowTwo(BMul(y.m, BFromNat(Log2(x))), y.e)
  ELSE IF (y.e < 0 /\ ~BLowZero(y.m, -y.e)) \/ Log2(y) >= 30 THEN Unmodelled(<<x, y>>)
  ELSE PowRound(PowR(<<x.m, x.e>>,
                     BToNat(IF y.e >= 0 THEN BShl(y.m, y.e) ELSE BShr(y.m, -y.e))))

(***************************************************************************)
(* The amortization engine, client/src/lib/mortgageCalculator.ts.          *)
(***************************************************************************)
getMonthlyRate(annualRate) == FDiv(FDiv(annualRate, FromNat(100)), FromNat(12))

\* lines 54 and 55
numerator(monthlyRate, periods) ==
  FMul(monthlyRate, MathPow(FAdd(One, monthlyRate), periods))

denominator(monthlyRate, periods) ==
  FSub(MathPow(FAdd(One, monthlyRate), periods), One)

calculateEqualPayment(principal, monthlyRate, periods) ==
  IF FEq(monthlyRate, FZero(0)) THEN FDiv(principal, periods)
  ELSE FDiv(FMul(principal, numerator(monthlyRate, periods)),
            denominator(monthlyRate, periods))

\* the number of times the body of  for (let i = 1; i <= periods; i++)  runs
TripCount(periods) ==
  IF ~FLe(One, periods) THEN 0
  ELSE IF periods.k = "inf" \/ Log2(periods) >= 30 THEN 2^30
  ELSE BToNat(IF periods.e >= 0 THEN BShl(periods.m, periods.e)
                                ELSE BShr(periods.m, -periods.e))

\* the locals of a generator in its loop: i, balance, schedule, and param,
\* which the generator computes before the loop (monthlyPayment of
\* generateEqualPaymentSchedule, principalPayment of
\* generateEqualPrincipalSchedule)
LoopStart(principal, param) ==
  [i |-> 1, balance |-> principal, schedule |-> <<>>, param |-> param]

\* schedule.push({...}) with the new balance, and i++
PushEntry(st, payment, principalPayment, interest, balance) ==
  [st EXCEPT !.i = st.i + 1,
             !.balance = balance,
             !.schedule = Append(st.schedule,
                            [period |-> st.i, payment |-> payment,
                             principal |-> principalPayment,
                             interest |-> interest,
                             balance |-> MathMax(FZero(0), balance)])]

\* balance -= principalPayment, and the push
PushRow(st, payment, principalPayment, interest) ==
  PushEntry(st, payment, principalPayment, interest,
            FSub(st.balance, principalPayment))

\* principalPayment = monthlyPayment - interest
EqualPaymentRow(st, interest) ==
  PushRow(st, st.param, FSub(st.param, interest), interest)

\* one iteration of the loop of generateEqualPaymentSchedule
EqualPaymentBody(st, monthlyRate) ==
  EqualPaymentRow(st, FMul(st.balance, monthlyRate))

\* up to k iterations of  for (let i = 1; i <= periods; i++)  from st, where
\* trip is the last i that is <= periods (split in halves, which bounds the
\* depth of the evaluation)
RECURSIVE EqualPaymentLoop(_, _, _, _)
EqualPaymentLoop(st, k, trip, monthlyRate) ==
  IF st.i > trip \/ k = 0 THEN st
  ELSE IF k = 1 THEN EqualPaymentBody(st, monthlyRate)
  ELSE EqualPaymentLoop(EqualPaymentLoop(st, k \div 2, trip, monthlyRate),
                        k - (k \div 2), trip, monthlyRate)

generateEqualPaymentSchedule(principal, monthlyRate, periods) ==
  EqualPaymentLoop(LoopStart(principal,
                             calculateEqualPayment(principal, monthlyRate, periods)),
                   TripCount(periods), TripCount(periods), monthlyRate).schedule

EqualPrincipalRowNoInterest(st, interest) ==
  PushRow(st, st.param, st.param, interest)

\* payment = principalPayment + interest
EqualPrincipalRow(st, interest) ==
  PushRow(st, FAdd(st.param, interest), st.param, interest)

\* one iteration of the loop of generateEqualPrincipalSchedule
EqualPrincipalBody(st, monthlyRate) ==
  EqualPrincipalRow(st, FMul(st.balance, monthlyRate))

RECURSIVE EqualPrincipalLoop(_, _, _, _)
EqualPrincipalLoop(st, k, trip, monthlyRate) ==
  IF st.i > trip \/ k = 0 THEN st
  ELSE IF k = 1 THEN EqualPrincipalBody(st, monthlyRate)
  ELSE EqualPrincipalLoop(EqualPrincipalLoop(st, k \div 2, trip, monthlyRate),
                          k - (k \div 2), trip, monthlyRate)

generateEqualPrincipalSchedule(principal, monthlyRate, periods) ==
  EqualPrincipalLoop(LoopStart(principal, FDiv(principal, periods)),
                     TripCount(periods), TripCount(periods), monthlyRate).schedule

\* schedule.reduce((sum, item) => sum + item.interest, 0) from the state
\* st = [i, sum], up to k items
RECURSIVE InterestFold(_, _, _)
InterestFold(st, schedule, k) ==
  IF st.i > Len(schedule) \/ k = 0 THEN st
  ELSE IF k = 1 THEN [i |-> st.i + 1, sum |-> FAdd(st.sum, schedule[st.i].interest)]
  ELSE InterestFold(InterestFold(st, schedule, k \div 2), schedule, k - (k \div 2))

calculateTotalInterest(schedule) ==
  InterestFold([i |-> 1, sum |-> FZero(0)], schedule, Len(schedule)).sum

\* the ceiling of the binary search
MaxPeriods == 1000

\* the probe at mid moves one end of the interval; st is [low, high, result]
SearchMove(st, mid, fits) ==
  IF fits THEN [st EXCEPT !.result = mid, !.high = mid - 1]
  ELSE [st EXCEPT !.low = mid + 1]

SearchProbe(st, mid, principal, monthlyRate, monthlyPayment) ==
  SearchMove(st, mid,
             FLe(calculateEqualPayment(principal, monthlyRate, FromNat(mid)),
                 monthlyPayment))

\* one iteration of the while loop of calculateNewPeriods
SearchBody(st, principal, monthlyRate, monthlyPayment) ==
  SearchProbe(st, (st.low + st.high) \div 2, principal, monthlyRate, monthlyPayment)

\* while (low <= high) { ... }
RECURSIVE SearchLoop(_, _, _, _)
SearchLoop(st, principal, monthlyRate, monthlyPayment) ==
  IF st.low > st.high THEN st
  ELSE SearchLoop(SearchBody(st, principal, monthlyRate, monthlyPayment),
                  principal, monthlyRate, monthlyPayment)

SearchStart == [low |-> 1, high |-> MaxPeriods, result |-> MaxPeriods]

calculateNewPeriods(principal, monthlyRate, monthlyPayment) ==
  IF FEq(monthlyRate, FZero(0)) THEN MathCeil(FDiv(principal, monthlyPayment))
  ELSE FromNat(SearchLoop(SearchStart, principal, monthlyRate, monthlyPayment).result)

generateSchedule(repaymentMethod, principal, monthlyRate, periods) ==
  IF repaymentMethod = "equal_principal_interest"
  THEN generateEqualPaymentSchedule(principal, monthlyRate, periods)
  ELSE generateEqualPrincipalSchedule(principal, monthlyRate, periods)

PaidOffKeepsTerm(input, originalMonthlyPayment, totalInterestOriginal) ==
  [originalMonthlyPayment |-> originalMonthlyPayment,
   totalInterestOriginal |-> totalInterestOriginal,
   newMonthlyPayment |-> FZero(0),
   totalInterestNew |-> FZero(0),
   interestSavings |-> totalInterestOriginal,
   periodReduction |-> FZero(0),
   newRemainingPeriods |-> input.remainingPeriods,
   schedule |-> <<>>]

\* lines 183-194: nothing is left to repay
PaidOff(input, originalMonthlyPayment, totalInterestOriginal) ==
  [originalMonthlyPayment |-> originalMonthlyPayment,
   totalInterestOriginal |-> totalInterestOriginal,
   newMonthlyPayment |-> FZero(0),
   totalInterestNew |-> FZero(0),
   interestSavings |-> totalInterestOriginal,
   periodReduction |-> input.remainingPeriods,
   newRemainingPeriods |-> FZero(0),
   schedule |-> <<>>]

\* lines 220-239: the number of periods when the payment is kept
ReducedPeriods(input, monthlyRate, originalMonthlyPayment, remainingPrincipal) ==
  IF input.repaymentMethod = "equal_principal_interest"
  THEN calculateNewPeriods(remainingPrincipal, monthlyRate, originalMonthlyPayment)
  ELSE MathCeil(FDiv(remainingPrincipal,
                     FDiv(input.totalLoan, input.remainingPeriods)))

\* lines 201-254: newRemainingPeriods
NewRemainingPeriods(input, monthlyRate, originalMonthlyPayment, remainingPrincipal) ==
  IF input.prepaymentType = "reduce_payment" THEN input.remainingPeriods
  ELSE ReducedPeriods(input, monthlyRate, originalMonthlyPayment, remainingPrincipal)

\* what a caller of calculateMortgage gets when reading .payment of an
\* undefined schedule entry throws (lines 177 and 218)
TypeError == [thrown |-> "TypeError"]

\* lines 256-267: the returned object, its fields in the order in which the
\* function computes them; newSchedule[0] is undefined for an empty schedule,
\* and reading its payment throws
MortgageResult(input, originalMonthlyPayment, totalInterestOriginal, newRemainingPeriods, newSchedule, totalInterestNew) ==
  IF input.prepaymentType = "reduce_payment" /\ Len(newSchedule) = 0
  THEN TypeError
  ELSE [newRemainingPeriods |-> newRemainingPeriods,
        periodReduction |->
          IF input.prepaymentType = "reduce_payment" THEN FZero(0)
          ELSE FSub(input.remainingPeriods, newRemainingPeriods),
        originalMonthlyPayment |-> originalMonthlyPayment,
        totalInterestOriginal |-> totalInterestOriginal,
        newMonthlyPayment |->
          IF input.prepaymentType = "reduce_payment"
          THEN newSchedule[1].payment ELSE originalMonthlyPayment,
        totalInterestNew |-> totalInterestNew,
        interestSavings |-> FSub(totalInterestOriginal, totalInterestNew),
        schedule |-> newSchedule]

MortgageWithSchedule(input, originalMonthlyPayment, totalInterestOriginal, newRemainingPeriods, newSchedule) ==
  MortgageResult(input, originalMonthlyPayment, totalInterestOriginal,
                 newRemainingPeriods, newSchedule,
                 calculateTotalInterest(newSchedule))

MortgageWithPeriods(input, monthlyRate, originalMonthlyPayment, totalInterestOriginal, remainingPrincipal, newRemainingPeriods) ==
  MortgageWithSchedule(input, originalMonthlyPayment, totalInterestOriginal,
                       newRemainingPeriods,
                       generateSchedule(input.repaymentMethod, remainingPrincipal,
                                        monthlyRate, newRemainingPeriods))

\* lines 180-254
MortgageAfterPrepayment(input, monthlyRate, originalMonthlyPayment, totalInterestOriginal, remainingPrincipal) ==
  IF FLe(remainingPrincipal, FZero(0))
  THEN PaidOff(input, originalMonthlyPayment, totalInterestOriginal)
  ELSE MortgageWithPeriods(input, monthlyRate, originalMonthlyPayment,
                           totalInterestOriginal, remainingPrincipal,
                           NewRemainingPeriods(input, monthlyRate,
                                               originalMonthlyPayment,
                                               remainingPrincipal))

\* lines 176-180; originalSchedule[0] is undefined for an empty schedule, and
\* reading its payment throws
MortgageWithOriginal(input, monthlyRate, originalSchedule) ==
  IF Len(originalSchedule) = 0 THEN TypeError
  ELSE MortgageAfterPrepayment(input, monthlyRate, originalSchedule[1].payment,
                               calculateTotalInterest(originalSchedule),
                               FSub(input.totalLoan, input.prepaymentAmount))

\* lines 164-175; a generator whose loop never runs returns the empty
\* schedule whatever it computed before the loop
MortgageAtRate(input, monthlyRate) ==
  IF TripCount(input.remainingPeriods) = 0
  THEN MortgageWithOriginal(input, monthlyRate, <<>>)
  ELSE MortgageWithOriginal(input, monthlyRate,
                            generateSchedule(input.repaymentMethod,
                                             input.totalLoan, monthlyRate,
                                             input.remainingPeriods))

\* the value of calculateMortgage(input), or TypeError where it throws
calculateMortgage(input) == MortgageAtRate(input, getMonthlyRate(input.annualRate))

(***************************************************************************)
(* State.                                                                  *)
(*   pc, input, loc, out: one call of calculateMortgage(input), followed   *)
(*     through its loops; loc holds the locals, out the returned value     *)
(*   call, ret: one direct call of a helper of the engine                  *)
(*   formData, result, hasCalculated: the state of the Home component;     *)
(*     engineInput records the argument with which its last handler called *)
(*     the engine, Null when that handler did not call it                  *)
(***************************************************************************)
VARIABLES pc, input, loc, out, call, ret, formData, result, hasCalculated, engineInput

vars == <<pc, input, loc, out, call, ret, formData, result, hasCalculated, engineInput>>
engineVars == <<pc, input, loc, out>>
callVars == <<call, ret>>
homeVars == <<formData, result, hasCalculated, engineInput>>

Methods == {"equal_principal_interest", "equal_principal"}
Types == {"reduce_payment", "reduce_period"}

\* null, for a value that is an object or null
Null == [null |-> TRUE]

\* the initial formData of Home
DefaultForm ==
  [totalLoan |-> FromNat(500000), remainingPeriods |-> FromNat(240),
   annualRate |-> FDiv(FromNat(385), FromNat(100)),
   prepaymentAmount |-> FromNat(100000),
   repaymentMethod |-> "equal_principal_interest",
   prepaymentType |-> "reduce_payment"]

EngineIdle ==
  /\ pc = "idle" /\ input = "none" /\ loc = "none" /\ out = "none"
CallIdle ==
  /\ call = "none" /\ ret = "none"
HomeIdle ==
  /\ formData = DefaultForm /\ result = Null /\ hasCalculated = FALSE
  /\ engineInput = Null

(***************************************************************************)
(* calculateMortgage(input), step by step.                                 *)
(***************************************************************************)
\* what a generator computes before its loop: the fixed payment, or the
\* fixed principal portion
ScheduleParam(repaymentMethod, principal, monthlyRate, periods) ==
  IF repaymentMethod = "equal_principal_interest"
  THEN calculateEqualPayment(principal, monthlyRate, periods)
  ELSE FDiv(principal, periods)

ScheduleBody(repaymentMethod, st, monthlyRate) ==
  IF repaymentMethod = "equal_principal_interest"
  THEN EqualPaymentBody(st, monthlyRate)
  ELSE EqualPrincipalBody(st, monthlyRate)

LocStart ==
  [monthlyRate |-> FZero(0), trip |-> 0,
   loop |-> LoopStart(FZero(0), FZero(0)), search |-> SearchStart,
   originalMonthlyPayment |-> FZero(0), totalInterestOriginal |-> FZero(0),
   remainingPrincipal |-> FZero(0), newRemainingPeriods |-> FZero(0),
   originalIterations |-> 0, newIterations |-> 0, probes |-> 0]

\* the locals as a generator reaches its loop
EnterLoop(l, principal, monthlyRate, periods) ==
  [l EXCEPT !.monthlyRate = monthlyRate,
            !.trip = TripCount(periods),
            !.loop = LoopStart(principal,
                               ScheduleParam(input.repaymentMethod, principal,
                                             monthlyRate, periods))]

\* the locals as the generator of the new schedule reaches its loop
EnterNewLoop(l, newRemainingPeriods) ==
  EnterLoop([l EXCEPT !.newRemainingPeriods = newRemainingPeriods],
            l.remainingPrincipal, l.monthlyRate, newRemainingPeriods)

\* lines 161-175: the monthly rate, and the original schedule's generator up
\* to its loop
Begin ==
  /\ pc = "start"
  /\ loc' = EnterLoop(loc, input.totalLoan, getMonthlyRate(input.annualRate),
                      input.remainingPeriods)
  /\ pc' = "originalLoop"
  /\ UNCHANGED <<input, out, callVars, homeVars>>

\* one iteration of the loop that generates the original schedule
OriginalLoopStep ==
  /\ pc = "originalLoop"
  /\ loc.loop.i <= loc.trip
  /\ loc' = [loc EXCEPT
               !.loop = ScheduleBody(input.repaymentMethod, loc.loop,
                                     loc.monthlyRate),
               !.originalIterations = @ + 1]
  /\ UNCHANGED <<pc, input, out, callVars, homeVars>>

\* lines 177-181: the first payment, the total interest, what is left to
\* repay; reading originalSchedule[0].payment throws on an empty schedule
OriginalLoopExit ==
  /\ pc = "originalLoop"
  /\ loc.loop.i > loc.trip
  /\ IF Len(loc.loop.schedule) = 0
     THEN pc' = "thrown" /\ out' = TypeError /\ loc' = loc
     ELSE /\ pc' = "prepaid"
          /\ out' = out
          /\ loc' = [loc EXCEPT
                       !.originalMonthlyPayment = loc.loop.schedule[1].payment,
                       !.totalInterestOriginal =
                          calculateTotalInterest(loc.loop.schedule),
                       !.remainingPrincipal =
                          FSub(input.totalLoan, input.prepaymentAmount)]
  /\ UNCHANGED <<input, callVars, homeVars>>

DirectPeriodsOneMore(l) ==
  IF input.prepaymentType = "reduce_payment"
  THEN FAdd(input.remainingPeriods, One)
  ELSE IF input.repaymentMethod = "equal_principal_interest"
  THEN MathCeil(FDiv(l.remainingPrincipal, l.originalMonthlyPayment))
  ELSE MathCeil(FDiv(l.remainingPrincipal,
                     FDiv(input.totalLoan, input.remainingPeriods)))

\* the number of periods of the new schedule where no search computes it:
\* lines 203, 134 (monthly rate 0) and 235-236
DirectPeriods(l) ==
  IF input.prepaymentType = "reduce_payment" THEN input.remainingPeriods
  ELSE IF input.repaymentMethod = "equal_principal_interest"
  THEN MathCeil(FDiv(l.remainingPrincipal, l.originalMonthlyPayment))
  ELSE MathCeil(FDiv(l.remainingPrincipal,
                     FDiv(input.totalLoan, input.remainingPeriods)))

\* lines 183-254: the early return, or the way to the new schedule
AfterPrepayment ==
  /\ pc = "prepaid"
  /\ IF FLe(loc.remainingPrincipal, FZero(0))
     THEN /\ pc' = "done"
          /\ loc' = loc
          /\ out' = PaidOff(input, loc.originalMonthlyPayment,
                            loc.totalInterestOriginal)
     ELSE IF /\ input.prepaymentType = "reduce_period"
             /\ input.repaymentMethod = "equal_principal_interest"
             /\ ~FEq(loc.monthlyRate, FZero(0))
     THEN /\ pc' = "searchLoop"
          /\ loc' = [loc EXCEPT !.search = SearchStart]
          /\ out' = out
     ELSE /\ pc' = "newLoop"
          /\ loc' = EnterNewLoop(loc, DirectPeriods(loc))
          /\ out' = out
  /\ UNCHANGED <<input, callVars, homeVars>>

\* one probe of the binary search of calculateNewPeriods
SearchStep ==
  /\ pc = "searchLoop"
  /\ loc.search.low <= loc.search.high
  /\ loc' = [loc EXCEPT
               !.search = SearchBody(loc.search, loc.remainingPrincipal,
                                     loc.monthlyRate, loc.originalMonthlyPayment),
               !.probes = @ + 1]
  /\ UNCHANGED <<pc, input, out, callVars, homeVars>>

\* the search returns: lines 154 and 239
SearchExit ==
  /\ pc = "searchLoop"
  /\ loc.search.low > loc.search.high
  /\ loc' = EnterNewLoop(loc, FromNat(loc.search.result))
  /\ pc' = "newLoop"
  /\ UNCHANGED <<input, out, callVars, homeVars>>

\* one iteration of the loop that generates the new schedule
NewLoopStep ==
  /\ pc = "newLoop"
  /\ loc.loop.i <= loc.trip
  /\ loc' = [loc EXCEPT
               !.loop = ScheduleBody(input.repaymentMethod, loc.loop,
                                     loc.monthlyRate),
               !.newIterations = @ + 1]
  /\ UNCHANGED <<pc, input, out, callVars, homeVars>>

\* lines 219 and 256-267: the result
NewLoopExit ==
  /\ pc = "newLoop"
  /\ loc.loop.i > loc.trip
  /\ out' = MortgageWithSchedule(input, loc.originalMonthlyPayment,
                                 loc.totalInterestOriginal,
                                 loc.newRemainingPeriods, loc.loop.schedule)
  /\ pc' = IF input.prepaymentType = "reduce_payment" /\ Len(loc.loop.schedule) = 0
           THEN "thrown" ELSE "done"
  /\ UNCHANGED <<input, loc, callVars, homeVars>>

Returned == pc = "done"
Thrown == pc = "thrown"

(***************************************************************************)
(* The arguments the model draws.                                          *)
(***************************************************************************)
MaxLoan == 2
MaxTerm == 3

Half == FDiv(One, FromNat(2))
\* 2^-54: the largest x with 1 - x = 1
Tiny == RoundPack(0, <<1>>, -54)

Loans == {FromNat(k) : k \in 1..MaxLoan}
Terms == {FromNat(k) : k \in 1..MaxTerm}
\* annual rates in percent; they make 1 + monthlyRate a power of two (1, 4)
Rates == {FZero(0), FromNat(3600)}
Prepayments == {FZero(0), Tiny, Half} \cup {FromNat(k) : k \in 1..(MaxLoan + 1)}

LoanParameters(L, n, a, p, m, t) ==
  [totalLoan |-> L, remainingPeriods |-> n, annualRate |-> a,
   prepaymentAmount |-> p, repaymentMethod |-> m, prepaymentType |-> t]

EngineInputs ==
  {LoanParameters(L, n, a, p, m, t) :
     L \in Loans, n \in Terms, a \in Rates, p \in Prepayments,
     m \in Methods, t \in Types}
  \cup {LoanParameters(FromNat(17), FromNat(7), FZero(0), p, m, "reduce_period") :
          p \in {FZero(0), One}, m \in Methods}
  \cup {LoanParameters(One, FAdd(One, Half), a, Half, m, t) :
          a \in Rates, m \in Methods, t \in Types}
  \cup {LoanParameters(One, Half, FZero(0), FZero(0), m, "reduce_payment") :
          m \in Methods}
  \cup {LoanParameters(One, FromNat(2), FromNat(18000), Half,
                       "equal_principal_interest", "reduce_period"),
        LoanParameters(One, FromNat(1001), FZero(0), Half,
                       "equal_principal", "reduce_payment")}

Init ==
  /\ pc = "start"
  /\ input \in EngineInputs
  /\ loc = LocStart
  /\ out = "none"
  /\ CallIdle
  /\ HomeIdle

Next ==
  \/ Begin
  \/ OriginalLoopStep
  \/ OriginalLoopExit
  \/ AfterPrepayment
  \/ SearchStep
  \/ SearchExit
  \/ NewLoopStep
  \/ NewLoopExit

Spec == Init /\ [][Next]_vars

\* the step-by-step call returns what the function, computed at once, returns
RunAgrees == (Returned \/ Thrown) => out = calculateMortgage(input)

(***************************************************************************)
(* Properties of calculateMortgage.                                        *)
(***************************************************************************)
\* x is a whole number
IsInteger(x) == IsFinite(x) /\ (x.e >= 0 \/ BLowZero(x.m, -x.e))

\* what is left to repay after the prepayment
Remaining(in) == FSub(in.totalLoan, in.prepaymentAmount)

\* totalLoan > 0, remainingPeriods >= 1, annualRate >= 0,
\* 0 <= prepaymentAmount < totalLoan
ValidInput(in) ==
  /\ FLt(FZero(0), in.totalLoan)
  /\ FLe(One, in.remainingPeriods)
  /\ FLe(FZero(0), in.annualRate)
  /\ FLe(FZero(0), in.prepaymentAmount)
  /\ FLt(in.prepaymentAmount, in.totalLoan)

\* the two checks of handleCalculate (part_000, lines 70-83) let f pass
Accepted(f) ==
  /\ ~(\/ FLe(f.totalLoan, FZero(0))
        \/ FLe(f.remainingPeriods, FZero(0))
        \/ FLt(f.annualRate, FZero(0))
        \/ FLt(f.prepaymentAmount, FZero(0)))
  /\ ~FLe(f.totalLoan, f.prepaymentAmount)

\* C2: a call with totalLoan - prepaymentAmount <= 0 returns newMonthlyPayment
\* 0, totalInterestNew 0, interestSavings = totalInterestOriginal,
\* periodReduction = remainingPeriods, newRemainingPeriods 0 and an empty
\* schedule, and has run neither the loop of a new schedule nor a probe of the
\* search
C2_PaidOffResult ==
  (Returned /\ FLe(Remaining(input), FZero(0))) =>
    /\ out.newMonthlyPayment = FZero(0)
    /\ out.totalInterestNew = FZero(0)
    /\ out.interestSavings = out.totalInterestOriginal
    /\ out.interestSavings = loc.totalInterestOriginal
    /\ out.periodReduction = input.remainingPeriods
    /\ out.newRemainingPeriods = FZero(0)
    /\ out.schedule = <<>>
    /\ loc.newIterations = 0
    /\ loc.probes = 0

\* a call that would have searched returns with nothing left to repay
C2_Witness ==
  /\ Returned
  /\ FLe(Remaining(input), FZero(0))
  /\ input.prepaymentType = "reduce_period"
  /\ input.repaymentMethod = "equal_principal_interest"
  /\ ~FEq(loc.monthlyRate, FZero(0))
  /\ loc.originalIterations > 1

\* the properties of a reduce_payment result that C3 names, but for the
\* comparison of the two payments
ReducePaymentResult ==
  /\ out.newRemainingPeriods = input.remainingPeriods
  /\ out.periodReduction = FZero(0)
  /\ FromNat(Len(out.schedule)) = input.remainingPeriods
  /\ out.schedule = generateSchedule(input.repaymentMethod, Remaining(input),
                                     getMonthlyRate(input.annualRate),
                                     input.remainingPeriods)
  /\ out.newMonthlyPayment = out.schedule[1].payment

\* C3 as stated: under reduce_payment with valid inputs the term is kept,
\* periodReduction is 0, the schedule has remainingPeriods entries generated
\* from totalLoan - prepaymentAmount, newMonthlyPayment is its first payment,
\* and that is strictly less than originalMonthlyPayment when
\* prepaymentAmount > 0
C3_AsStated ==
  (Returned /\ input.prepaymentType = "reduce_payment" /\ ValidInput(input)) =>
    /\ ReducePaymentResult
    /\ FLt(FZero(0), input.prepaymentAmount) =>
          FLt(out.newMonthlyPayment, out.originalMonthlyPayment)

\* C3, amended: the same for a whole number of remainingPeriods, with a
\* newMonthlyPayment that is never greater than originalMonthlyPayment
C3_ReducePayment ==
  (/\ Returned
   /\ input.prepaymentType = "reduce_payment"
   /\ ValidInput(input)
   /\ IsInteger(input.remainingPeriods)) =>
    /\ ReducePaymentResult
    /\ ~FLt(out.originalMonthlyPayment, out.newMonthlyPayment)

\* a prepayment lowers the payment of a loan at interest over several periods
C3_Witness ==
  /\ Returned
  /\ input.prepaymentType = "reduce_payment"
  /\ ValidInput(input)
  /\ IsInteger(input.remainingPeriods)
  /\ FLt(FZero(0), input.prepaymentAmount)
  /\ ~FEq(loc.monthlyRate, FZero(0))
  /\ Len(out.schedule) > 1
  /\ FLt(out.newMonthlyPayment, out.originalMonthlyPayment)

\* C4 as stated: under reduce_period with valid inputs and a whole number of
\* remainingPeriods, newRemainingPeriods is a whole number from 1 to
\* remainingPeriods, and periodReduction = remainingPeriods -
\* newRemainingPeriods is not negative
C4_AsStated ==
  (/\ Returned
   /\ input.prepaymentType = "reduce_period"
   /\ ValidInput(input)
   /\ IsInteger(input.remainingPeriods)) =>
    /\ IsInteger(out.newRemainingPeriods)
    /\ FLe(One, out.newRemainingPeriods)
    /\ FLe(out.newRemainingPeriods, input.remainingPeriods)
    /\ out.periodReduction = FSub(input.remainingPeriods, out.newRemainingPeriods)
    /\ FLe(FZero(0), out.periodReduction)

\* C5 as stated: under reduce_period with equal_principal,
\* newRemainingPeriods = ceil((totalLoan - prepaymentAmount) /
\* (totalLoan / remainingPeriods)) and every entry of the returned schedule
\* has the principal component totalLoan / remainingPeriods
C5_AsStated ==
  (/\ Returned
   /\ input.prepaymentType = "reduce_period"
   /\ input.repaymentMethod = "equal_principal"
   /\ ValidInput(input)
   /\ IsInteger(input.remainingPeriods)) =>
    /\ out.newRemainingPeriods =
         MathCeil(FDiv(Remaining(input),
                       FDiv(input.totalLoan, input.remainingPeriods)))
    /\ \A i \in 1..Len(out.schedule) :
         out.schedule[i].principal = FDiv(input.totalLoan, input.remainingPeriods)

\* C10 as stated, the bounds: in a call that the caller's validation accepts,
\* no schedule loop makes, or is set to make, more than 1000 iterations, and
\* the search probes at most 10 values
C10_AsStated ==
  Accepted(input) =>
    /\ loc.trip <= MaxPeriods
    /\ loc.originalIterations <= MaxPeriods
    /\ loc.newIterations <= MaxPeriods
    /\ loc.probes <= 10

\* C11 as stated: for a valid input, a returned schedule that is not empty has
\* newRemainingPeriods entries, and newMonthlyPayment is the payment of its
\* first entry
C11_AsStated ==
  (/\ Returned
   /\ ValidInput(input)
   /\ IsInteger(input.remainingPeriods)
   /\ Len(out.schedule) > 0) =>
    /\ FromNat(Len(out.schedule)) = out.newRemainingPeriods
    /\ out.newMonthlyPayment = out.schedule[1].payment

(***************************************************************************)
(* The helpers of the engine, called directly: call is the call             *)
(* [fn, principal, monthlyRate, arg], where arg is periods for a generator  *)
(* and monthlyPayment for calculateNewPeriods, and ret is what it returns.  *)
(***************************************************************************)
\* monthly rates: 1 + monthlyRate is 1, 4 or 16
MonthlyRates == {FZero(0), FromNat(3), FromNat(15)}
Generators == {"generateEqualPaymentSchedule", "generateEqualPrincipalSchedule"}
PeriodCounts == Terms \cup {FAdd(One, Half), FromNat(14), FromNat(256)}
\* 4, 3.5 and 3.125 are at or between the payments of a loan of 1 at the
\* monthly rate 3 over 1, 2 and 3 periods; 16 is the payment of a loan of 1
\* at the monthly rate 15 over 1 period
TargetPayments ==
  {FromNat(4), FDiv(FromNat(7), FromNat(2)), FDiv(FromNat(25), FromNat(8)),
   FromNat(16), FromNat(32)}

HelperCall(fn, principal, monthlyRate, arg) ==
  [fn |-> fn, principal |-> principal, monthlyRate |-> monthlyRate, arg |-> arg]

HelperCalls ==
  {HelperCall(fn, P, r, n) :
     fn \in Generators, P \in Loans, r \in MonthlyRates, n \in PeriodCounts}
  \cup {HelperCall("calculateNewPeriods", P, r, m) :
          P \in Loans, r \in MonthlyRates \ {FZero(0)}, m \in TargetPayments}

CallInit ==
  /\ pc = "call"
  /\ call \in HelperCalls
  /\ ret = "none"
  /\ input = "none" /\ loc = "none" /\ out = "none"
  /\ HomeIdle

CallEqualPaymentSchedule ==
  /\ pc = "call"
  /\ call.fn = "generateEqualPaymentSchedule"
  /\ ret' = generateEqualPaymentSchedule(call.principal, call.monthlyRate, call.arg)
  /\ pc' = "called"
  /\ UNCHANGED <<call, input, loc, out, homeVars>>

CallEqualPrincipalSchedule ==
  /\ pc = "call"
  /\ call.fn = "generateEqualPrincipalSchedule"
  /\ ret' = generateEqualPrincipalSchedule(call.principal, call.monthlyRate, call.arg)
  /\ pc' = "called"
  /\ UNCHANGED <<call, input, loc, out, homeVars>>

CallNewPeriods ==
  /\ pc = "call"
  /\ call.fn = "calculateNewPeriods"
  /\ ret' = calculateNewPeriods(call.principal, call.monthlyRate, call.arg)
  /\ pc' = "called"
  /\ UNCHANGED <<call, input, loc, out, homeVars>>

CallNext ==
  \/ CallEqualPaymentSchedule
  \/ CallEqualPrincipalSchedule
  \/ CallNewPeriods

CallSpec == CallInit /\ [][CallNext]_vars

Called(fn) == pc = "called" /\ call.fn = fn

(***************************************************************************)
(* Properties of the helpers.                                              *)
(***************************************************************************)
\* the whole number that the Number x is (below 2^31)
ToNat(x) == BToNat(IF x.e >= 0 THEN BShl(x.m, x.e) ELSE BShr(x.m, -x.e))

\* C1 as stated: for principal > 0, monthlyRate > 0 and a target payment > 0,
\* calculateNewPeriods returns a whole number n from 1 to 1000, no smaller
\* number of periods has a payment that is <= the target, and n has one
\* unless n is 1000
C1_AsStated ==
  (/\ Called("calculateNewPeriods")
   /\ FLt(FZero(0), call.principal)
   /\ FLt(FZero(0), call.monthlyRate)
   /\ FLt(FZero(0), call.arg)) =>
    /\ IsInteger(ret)
    /\ FLe(One, ret)
    /\ FLe(ret, FromNat(MaxPeriods))
    /\ \A n \in 1..(ToNat(ret) - 1) :
         ~FLe(calculateEqualPayment(call.principal, call.monthlyRate, FromNat(n)),
              call.arg)
    /\ \/ ret = FromNat(MaxPeriods)
       \/ FLe(calculateEqualPayment(call.principal, call.monthlyRate, ret), call.arg)

\* the sum of the principal components of the entries lo..hi of a schedule
RECURSIVE PrincipalSum(_, _, _)
PrincipalSum(schedule, lo, hi) ==
  IF lo > hi THEN FZero(0)
  ELSE IF lo = hi THEN schedule[lo].principal
  ELSE FAdd(PrincipalSum(schedule, lo, (lo + hi) \div 2),
            PrincipalSum(schedule, ((lo + hi) \div 2) + 1, hi))

FAbs(x) == IF IsNaN(x) THEN x ELSE [x EXCEPT !.s = 0]

\* x is y to within 2^-20 (less than 1e-6) of scale
Near(x, y, scale) ==
  FLe(FAbs(FSub(x, y)), FMul(scale, RoundPack(0, <<1>>, -20)))

\* principal > 0, monthlyRate >= 0, periods >= 1
GeneratorArguments ==
  /\ FLt(FZero(0), call.principal)
  /\ FLe(FZero(0), call.monthlyRate)
  /\ FLe(One, call.arg)

\* C7 as stated, sums and the final balance taken to within the tolerance the
\* specification allows: for principal > 0, monthlyRate >= 0 and a whole
\* number of periods >= 1, each generator returns periods entries numbered
\* 1..periods, whose principal components sum to the principal, and whose
\* balance is never negative, decreases from entry to entry and ends at 0
C7_AsStated ==
  (/\ pc = "called"
   /\ call.fn \in Generators
   /\ GeneratorArguments
   /\ IsInteger(call.arg)) =>
    /\ FromNat(Len(ret)) = call.arg
    /\ \A i \in 1..Len(ret) : ret[i].period = i
    /\ Near(PrincipalSum(ret, 1, Len(ret)), call.principal, call.principal)
    /\ \A i \in 1..Len(ret) : FLe(FZero(0), ret[i].balance)
    /\ \A i \in 2..Len(ret) : FLt(ret[i].balance, ret[i - 1].balance)
    /\ Near(ret[Len(ret)].balance, FZero(0), call.principal)

\* C8 as stated: for principal > 0, monthlyRate >= 0 and periods >= 1, every
\* entry that generateEqualPaymentSchedule returns carries the same payment
\* (principal / periods, with interest 0, at the monthly rate 0), the interest
\* component never increases and the principal component never decreases from
\* one entry to the next
C8_AsStated ==
  (Called("generateEqualPaymentSchedule") /\ GeneratorArguments) =>
    /\ \A i \in 1..Len(ret) : FEq(ret[i].payment, ret[1].payment)
    /\ FEq(call.monthlyRate, FZero(0)) =>
         \A i \in 1..Len(ret) :
           /\ ret[i].payment = FDiv(call.principal, call.arg)
           /\ FEq(ret[i].interest, FZero(0))
    /\ \A i \in 2..Len(ret) :
         /\ FLe(ret[i].interest, ret[i - 1].interest)
         /\ FLe(ret[i - 1].principal, ret[i].principal)

\* the balance before the payment of entry i
BalanceBefore(i) == IF i = 1 THEN call.principal ELSE ret[i - 1].balance

\* C9: for principal > 0, monthlyRate >= 0 and periods >= 1, every entry that
\* generateEqualPrincipalSchedule returns has the principal component
\* principal / periods, its payment is that portion plus the interest on the
\* balance before the payment, and no payment is greater than the one before
C9_EqualPrincipalSchedule ==
  (Called("generateEqualPrincipalSchedule") /\ GeneratorArguments) =>
    /\ \A i \in 1..Len(ret) :
         /\ ret[i].principal = FDiv(call.principal, call.arg)
         /\ ret[i].interest = FMul(BalanceBefore(i), call.monthlyRate)
         /\ ret[i].payment = FAdd(ret[i].principal, ret[i].interest)
    /\ \A i \in 2..Len(ret) : FLe(ret[i].payment, ret[i - 1].payment)

\* a schedule of several entries at interest, with falling payments
C9_Witness ==
  /\ Called("generateEqualPrincipalSchedule")
  /\ GeneratorArguments
  /\ FLt(FZero(0), call.monthlyRate)
  /\ Len(ret) >= 3
  /\ FLt(ret[3].payment, ret[2].payment)
  /\ FLt(ret[2].payment, ret[1].payment)

(***************************************************************************)
(* The Home component: its state after the first render, and its handlers. *)
(***************************************************************************)
\* the text of a number input, as a sequence of characters
DigitChars == <<"0", "1", "2", "3", "4", "5", "6", "7", "8", "9">>
IsDigit(c) == \E d \in 1..Len(DigitChars) : DigitChars[d] = c
DigitValue(c) == (CHOOSE d \in 1..Len(DigitChars) : DigitChars[d] = c) - 1

\* how many digits text has from position from on
DigitRun(text, from) ==
  CHOOSE k \in 0..(Len(text) + 1 - from) :
    /\ \A i \in from..(from + k - 1) : IsDigit(text[i])
    /\ (from + k > Len(text) \/ ~IsDigit(text[from + k]))

\* the number that the count digits from position from on write
RECURSIVE DecimalValue(_, _, _)
DecimalValue(text, from, count) ==
  IF count = 0 THEN 0
  ELSE 10 * DecimalValue(text, from, count - 1) + DigitValue(text[from + count - 1])

\* parseFloat of digits with an optional fraction: the double nearest to the
\* decimal, NaN where there is no digit
ParseDigits(text, start, whole, frac) ==
  IF whole + frac = 0 THEN NaN
  ELSE FDiv(FromNat(DecimalValue(text, start, whole) * 10^frac
                    + DecimalValue(text, start + whole + 1, frac)),
            FromNat(10^frac))

ParseFraction(text, start, whole) ==
  IF start + whole <= Len(text) /\ text[start + whole] = "."
  THEN ParseDigits(text, start, whole, DigitRun(text, start + whole + 1))
  ELSE ParseDigits(text, start, whole, 0)

ParseUnsigned(text, start) == ParseFraction(text, start, DigitRun(text, start))

\* parseFloat(text), for a text of an optional sign, digits and an optional
\* fraction; what follows the number is ignored
parseFloat(text) ==
  IF Len(text) > 0 /\ text[1] = "-" THEN FNeg(ParseUnsigned(text, 2))
  ELSE IF Len(text) > 0 /\ text[1] = "+" THEN ParseUnsigned(text, 2)
  ELSE ParseUnsigned(text, 1)

\* x || 0: NaN and both zeros are falsy
OrZero(x) == IF IsNaN(x) \/ IsZero(x) THEN FZero(0) ELSE x

\* line 38: the number stored for the text of an input
InputValue(value) == IF value = <<>> THEN FZero(0) ELSE OrZero(parseFloat(value))

\* the form after handleClearForm
ClearedForm ==
  [totalLoan |-> FZero(0), remainingPeriods |-> FZero(0),
   annualRate |-> FZero(0), prepaymentAmount |-> FZero(0),
   repaymentMethod |-> "equal_principal_interest",
   prepaymentType |-> "reduce_payment"]

\* the texts typed into the inputs
Typed ==
  {<<"totalLoan", <<"2">> >>,
   <<"remainingPeriods", <<"2">> >>,
   <<"remainingPeriods", <<"0", ".", "5">> >>,
   <<"prepaymentAmount", <<"-", "1">> >>}

HomeInit ==
  /\ pc = "home"
  /\ input = "none" /\ loc = "none" /\ out = "none"
  /\ CallIdle
  /\ HomeIdle

handleInputChange(field, value) ==
  /\ pc = "home"
  /\ formData' = [formData EXCEPT ![field] = InputValue(value)]
  /\ engineInput' = Null
  /\ UNCHANGED <<result, hasCalculated, engineVars, callVars>>

handleSelectChange(value) ==
  /\ pc = "home"
  /\ formData' = [formData EXCEPT !.repaymentMethod = value]
  /\ engineInput' = Null
  /\ UNCHANGED <<result, hasCalculated, engineVars, callVars>>

handlePrepaymentTypeChange(value) ==
  /\ pc = "home"
  /\ formData' = [formData EXCEPT !.prepaymentType = value]
  /\ engineInput' = Null
  /\ UNCHANGED <<result, hasCalculated, engineVars, callVars>>

handleClearForm ==
  /\ pc = "home"
  /\ formData' = ClearedForm
  /\ result' = Null
  /\ hasCalculated' = FALSE
  /\ engineInput' = Null
  /\ UNCHANGED <<engineVars, callVars>>

\* lines 85-87: an exception of the engine leaves the handler before the two
\* setters
SetResult(calculationResult) ==
  IF calculationResult = TypeError
  THEN UNCHANGED <<result, hasCalculated>>
  ELSE result' = calculationResult /\ hasCalculated' = TRUE

handleCalculate ==
  /\ pc = "home"
  /\ IF Accepted(formData)
     THEN engineInput' = formData /\ SetResult(calculateMortgage(formData))
     ELSE engineInput' = Null /\ UNCHANGED <<result, hasCalculated>>
  /\ UNCHANGED <<formData, engineVars, callVars>>

HomeNext ==
  \/ \E t \in Typed : handleInputChange(t[1], t[2])
  \/ \E value \in Methods : handleSelectChange(value)
  \/ \E value \in Types : handlePrepaymentTypeChange(value)
  \/ handleClearForm
  \/ handleCalculate

HomeSpec == HomeInit /\ [][HomeNext]_vars

(***************************************************************************)
(* Properties of Home.                                                     *)
(***************************************************************************)
\* the result panel is rendered (lines 219-231)
PanelShown == hasCalculated /\ result # Null

\* C6 as stated: handleCalculate calls the engine only with a form whose
\* totalLoan > 0, remainingPeriods > 0 and whole, annualRate >= 0 and
\* 0 <= prepaymentAmount < totalLoan
C6_AsStated ==
  engineInput # Null =>
    /\ FLt(FZero(0), engineInput.totalLoan)
    /\ FLt(FZero(0), engineInput.remainingPeriods)
    /\ IsInteger(engineInput.remainingPeriods)
    /\ FLe(FZero(0), engineInput.annualRate)
    /\ FLe(FZero(0), engineInput.prepaymentAmount)
    /\ FLt(engineInput.prepaymentAmount, engineInput.totalLoan)

\* C12 as stated: whenever the result panel is shown, the result in it is
\* calculateMortgage of the formData rendered next to it
C12_AsStated == PanelShown => result = calculateMortgage(formData)

====
